---- MODULE Spec2Model ----
(***************************************************************************)
(* Request execution of the google_maps client: the `get` methods of the   *)
(* Directions request, the Snap-To-Roads request and the Geocoding forward *)
(* request.  The two async methods pass the rate limiter once, then run    *)
(* the `backoff` retry loop around one HTTP GET per attempt; the Geocoding *)
(* method is a blocking single GET.                                        *)
(*                                                                         *)
(* Time is counted in ticks.  A call is suspended at the `.await` points   *)
(* of the source: in `limit_apis`, in the HTTP exchange, in the backoff    *)
(* sleep; between two of them the code runs as one step.                   *)
(***************************************************************************)
EXTENDS Integers, FiniteSets, Sequences, TLC

\* ------------------------------------------------------------------ bounds
NumCalls == 2          \* get calls that exist in one behaviour
MaxTime == 6           \* the clock stops here
InitialInterval == 2   \* ExponentialBackoff initial_interval, in ticks
MaxInterval == 3       \* ExponentialBackoff max_interval, in ticks
MaxElapsedTime == 5    \* ExponentialBackoff max_elapsed_time, in ticks
WindowLen == 3         \* length of one rate-limit window, in ticks
Limit == 1             \* permits per category and window

Calls == 1..NumCalls

\* ------------------------------------------------------------------- state
VARIABLES
  svc,        \* the service of each call
  query,      \* each request's query string: "None" or "Some"
  pc,         \* where each call is
  attempts,   \* HTTP exchanges each call has started
  permits,    \* limit_apis permits each call has been given
  outcome,    \* the outcome of each call's latest exchange
  class,      \* what the closure made of it: Ok, Transient, Permanent
  result,     \* what get returned
  interval,   \* the call's ExponentialBackoff current_interval
  startTime,  \* the call's ExponentialBackoff start_time
  wakeAt,     \* when the call's backoff sleep ends
  now,        \* the clock
  used,       \* the limiter: permits given per category in this window
  sent,       \* HTTP exchanges started per category in this window
  transport,  \* the transport in use: "any", "core" or "failing"
  draws,      \* the randomized intervals next_backoff has drawn for each call
  firstErr,   \* the error of each call's first failed exchange
  log         \* the tracing events each call has emitted

vars == <<svc, query, pc, attempts, permits, outcome, class, result, interval,
          startTime, wakeAt, now, used, sent, transport, draws, firstErr, log>>

\* ---------------------------------------------------------------- services
Service == {"Directions", "Roads", "Geocoding"}

\* The services whose get is the async method with the retry loop.
RetryService == {"Directions", "Roads"}

Api == {"All", "Directions", "Roads"}

\* The categories a get passes to limit_apis; the Geocoding get calls no limiter.
Categories(s) ==
  CASE s = "Directions" -> {"All", "Directions"}
    [] s = "Roads" -> {"All", "Roads"}
    [] OTHER -> {}

\* ----------------------------------------------------------- wire contents
\* Status values of a response's `status` field (the per-service Status enums).
Status == {"Ok", "UnknownError", "RequestDenied"}

\* Status values inside the Snap-To-Roads `error` object.
RoadsStatus == {"UnknownError", "RequestDenied"}

\* HTTP status codes the server may answer with.
HttpStatus == {100, 200, 299, 404, 429, 503}

\* A body as it travels: the transfer may break ("readfail"), the text may be
\* no JSON ("garbage"), or it is a JSON object whose `status` member is absent,
\* an unknown word, or a Status, and whose `error` member is absent or present.
JsonBody == [kind : {"json"}, status : {"absent", "BOGUS"} \cup Status,
             error : {"absent"} \cup RoadsStatus]

ReadFail == [kind |-> "readfail", status |-> "absent", error |-> "absent"]

Garbage == [kind |-> "garbage", status |-> "absent", error |-> "absent"]

Body == {ReadFail, Garbage} \cup JsonBody

\* What one HTTP exchange yields: no response at all, or a status and a body.
ConnectFail == [kind |-> "error", status |-> 0, body |-> ReadFail]

NoOutcome == [kind |-> "none", status |-> 0, body |-> ReadFail]

Outcomes == {ConnectFail} \cup [kind : {"response"}, status : HttpStatus, body : Body]

\* The outcomes of a transport with a small repertoire, for runs with
\* several calls.
CoreOutcomes ==
  { [kind |-> "response", status |-> 503, body |-> Garbage],
    [kind |-> "response", status |-> 404, body |-> Garbage],
    [kind |-> "response", status |-> 200,
     body |-> [kind |-> "json", status |-> "Ok", error |-> "absent"]] }

\* The outcomes of a transport that never succeeds: each one is retryable
\* for Directions and for Snap-To-Roads.
FailingOutcomes ==
  { ConnectFail,
    [kind |-> "response", status |-> 503, body |-> Garbage],
    [kind |-> "response", status |-> 429,
     body |-> [kind |-> "json", status |-> "Ok", error |-> "absent"]] }

\* The outcomes the transport in use can produce.
Produces(t) ==
  CASE t = "any" -> Outcomes
    [] t = "failing" -> FailingOutcomes
    [] OTHER -> CoreOutcomes

\* http::StatusCode::is_success and is_server_error
IsSuccess(s) == 200 <= s /\ s < 300

IsServerError(s) == 500 <= s /\ s < 600

\* ------------------------------------------------------------------ decode
NotDecoded == [ok |-> FALSE, status |-> "absent", error |-> "absent"]

\* Mutant of DecodeDirections: a missing or unknown `status` decodes as Ok.
DecodeDirectionsLenient(b) ==
  IF b.kind = "json"
    THEN [ok |-> TRUE, status |-> IF b.status \in Status THEN b.status ELSE "Ok",
          error |-> "absent"]
    ELSE NotDecoded

\* from_slice::<DirectionsResponse>: `status` is a required member of enum type
\* (it is compared with DirectionsStatus::Ok); other members are not looked at.
DecodeDirections(b) ==
  IF b.kind = "json" /\ b.status \in Status
    THEN [ok |-> TRUE, status |-> b.status, error |-> "absent"]
    ELSE NotDecoded

\* from_str::<Response> of Snap-To-Roads: `error` is optional, no `status` member.
DecodeRoads(b) ==
  IF b.kind = "json"
    THEN [ok |-> TRUE, status |-> "absent", error |-> b.error]
    ELSE NotDecoded

\* .json::<Response>() of the Geocoding response: `status` is required.
DecodeGeocoding(b) ==
  IF b.kind = "json" /\ b.status \in Status
    THEN [ok |-> TRUE, status |-> b.status, error |-> "absent"]
    ELSE NotDecoded

\* ------------------------------------------------------------------ errors
Err(k, http, st) == [kind |-> k, http |-> http, status |-> st]

NoErr == Err("none", 0, "absent")

QueryNotBuilt == Err("QueryNotBuilt", 0, "absent")

\* Mutant of AttemptOk: the decoded response is handed back as a failure to
\* retry.
AttemptOkRetried(d) == [class |-> "Transient", val |-> d, err |-> NoErr]

\* What the closure given to `retry` returns for one exchange.
AttemptOk(d) == [class |-> "Ok", val |-> d, err |-> NoErr]

Transient(e) == [class |-> "Transient", val |-> NotDecoded, err |-> e]

\* Mutant of Permanent: the error is wrapped as Transient.
PermanentRetried(e) == [class |-> "Transient", val |-> NotDecoded, err |-> e]

Permanent(e) == [class |-> "Permanent", val |-> NotDecoded, err |-> e]

\* Mutant of HttpFailure: the error does not carry the HTTP status.
HttpFailureNoStatus(s) ==
  IF IsServerError(s) \/ s = 429
    THEN Transient(Err("HttpUnsuccessful", 0, "absent"))
    ELSE Permanent(Err("HttpUnsuccessful", 0, "absent"))

\* Mutant of HttpFailure: a server error is retried only early on.
HttpFailureWhileFresh(s) ==
  IF (IsServerError(s) \/ s = 429) /\ now < 2
    THEN Transient(Err("HttpUnsuccessful", s, "absent"))
    ELSE Permanent(Err("HttpUnsuccessful", s, "absent"))

\* Mutant of HttpFailure: 429 is not retried.
HttpFailureOnly5xx(s) ==
  IF IsServerError(s)
    THEN Transient(Err("HttpUnsuccessful", s, "absent"))
    ELSE Permanent(Err("HttpUnsuccessful", s, "absent"))

\* Mutant of HttpFailure: client errors are retried as well.
HttpFailureRetry4xx(s) ==
  IF s >= 400
    THEN Transient(Err("HttpUnsuccessful", s, "absent"))
    ELSE Permanent(Err("HttpUnsuccessful", s, "absent"))

\* The status branch shared by both closures: 5xx or 429 is retried.
HttpFailure(s) ==
  IF IsServerError(s) \/ s = 429
    THEN Transient(Err("HttpUnsuccessful", s, "absent"))
    ELSE Permanent(Err("HttpUnsuccessful", s, "absent"))

\* Mutant of JsonFailure: a body that does not decode is retried.
JsonFailureRetried(k) == Transient(Err(k, 0, "absent"))

\* The branch of a body that does not decode: SimdJson or SerdeJson, permanent.
JsonFailure(k) == Permanent(Err(k, 0, "absent"))

\* DirectionsRequest::get, the closure.
DirectionsAttempt(o) ==
  IF o.kind = "response"
    THEN IF IsSuccess(o.status)
           THEN IF o.body.kind # "readfail"
                  THEN LET d == DecodeDirections(o.body) IN
                       IF d.ok
                         THEN IF d.status = "Ok"
                                THEN AttemptOk(d)
                                ELSE IF d.status = "UnknownError"
                                       THEN Transient(Err("GoogleMapsService", 0, d.status))
                                       ELSE Permanent(Err("GoogleMapsService", 0, d.status))
                         ELSE JsonFailure("SimdJson")
                  ELSE Permanent(Err("ReqwestMessage", 0, "absent"))
           ELSE HttpFailure(o.status)
    ELSE Transient(Err("Reqwest", 0, "absent"))

\* Mutant of RoadsAttempt: an error object with the unknown-error status is
\* retried.
RoadsAttemptRetryUnknown(o) ==
  IF o.kind = "response"
    THEN IF IsSuccess(o.status)
           THEN IF o.body.kind # "readfail"
                  THEN LET d == DecodeRoads(o.body) IN
                       IF d.ok
                         THEN IF d.error = "UnknownError"
                                THEN Transient(Err("GoogleMapsService", 0, d.error))
                                ELSE IF d.error # "absent"
                                       THEN Permanent(Err("GoogleMapsService", 0, d.error))
                                       ELSE AttemptOk(d)
                         ELSE JsonFailure("SerdeJson")
                  ELSE Permanent(Err("ReqwestMessage", 0, "absent"))
           ELSE HttpFailure(o.status)
    ELSE Transient(Err("Reqwest", 0, "absent"))

\* snap_to_roads Request::get, the closure.
RoadsAttempt(o) ==
  IF o.kind = "response"
    THEN IF IsSuccess(o.status)
           THEN IF o.body.kind # "readfail"
                  THEN LET d == DecodeRoads(o.body) IN
                       IF d.ok
                         THEN IF d.error # "absent"
                                THEN Permanent(Err("GoogleMapsService", 0, d.error))
                                ELSE AttemptOk(d)
                         ELSE JsonFailure("SerdeJson")
                  ELSE Permanent(Err("ReqwestMessage", 0, "absent"))
           ELSE HttpFailure(o.status)
    ELSE Transient(Err("Reqwest", 0, "absent"))

Attempt(s, o) == IF s = "Directions" THEN DirectionsAttempt(o) ELSE RoadsAttempt(o)

\* Mutant of ForwardAttempt: the HTTP status and the decoded status are
\* checked before the response is returned.
ForwardAttemptChecked(o) ==
  IF o.kind = "response" /\ IsSuccess(o.status) /\ o.body.kind # "readfail"
    THEN LET d == DecodeGeocoding(o.body) IN
         IF d.ok /\ d.status = "Ok"
           THEN AttemptOk(d)
           ELSE Permanent(Err("Reqwest", 0, "absent"))
    ELSE Permanent(Err("Reqwest", 0, "absent"))

\* ForwardRequest::get after the query check: get(uri)?.json::<Response>()?
\* Neither the HTTP status nor the decoded status is looked at.
ForwardAttempt(o) ==
  IF o.kind = "response"
    THEN IF o.body.kind # "readfail"
           THEN LET d == DecodeGeocoding(o.body) IN
                IF d.ok THEN AttemptOk(d)
                        ELSE Permanent(Err("Reqwest", 0, "absent"))
           ELSE Permanent(Err("Reqwest", 0, "absent"))
    ELSE Permanent(Err("Reqwest", 0, "absent"))

\* ----------------------------------------------------------------- backoff
Min(a, b) == IF a <= b THEN a ELSE b

\* ExponentialBackoff: randomization_factor 0.5, multiplier 1.5.
RandomizedIntervals(cur) == (cur - cur \div 2)..(cur + cur \div 2)

\* Mutant of IncrementCurrentInterval: max_interval is not applied.
IncrementCurrentIntervalNoCap(cur) == (cur * 3) \div 2

IncrementCurrentInterval(cur) == Min((cur * 3) \div 2, MaxInterval)

\* Mutant of NextBackoff: gives up as soon as any time has passed.
NextBackoffImpatient(elapsed, d) == IF elapsed > 0 THEN 0 ELSE d

\* Mutant of NextBackoff: max_elapsed_time is not looked at.
NextBackoffUnbounded(elapsed, d) == d

\* next_backoff: 0 stands for None (give up), else the delay to sleep.
NextBackoff(elapsed, d) ==
  IF elapsed > MaxElapsedTime THEN 0
  ELSE IF elapsed + d <= MaxElapsedTime THEN d ELSE 0

\* A tracing event: its level and the attempt that emitted it (0: none).
Event(level, k) == [level |-> level, attempt |-> k]

\* The event the closure emits for an exchange it classified: warn before
\* Transient, error before Permanent, nothing on the Ok path.
AttemptEvents(cls, k) ==
  CASE cls = "Transient" -> <<Event("warn", k)>>
    [] cls = "Permanent" -> <<Event("error", k)>>
    [] OTHER -> <<>>

NoResult == [tag |-> "None", val |-> NotDecoded, err |-> NoErr]

OkResult(d) == [tag |-> "Ok", val |-> d, err |-> NoErr]

ErrResult(e) == [tag |-> "Err", val |-> NotDecoded, err |-> e]

InitCalls(launched) ==
  /\ svc \in [Calls -> Service]
  /\ query \in [Calls -> {"None", "Some"}]
  /\ \A c \in Calls \ launched : svc[c] = "Directions" /\ query[c] = "None"
  /\ pc = [c \in Calls |-> IF c \in launched THEN "idle" ELSE "absent"]
  /\ attempts = [c \in Calls |-> 0]
  /\ permits = [c \in Calls |-> 0]
  /\ outcome = [c \in Calls |-> NoOutcome]
  /\ class = [c \in Calls |-> "None"]
  /\ result = [c \in Calls |-> NoResult]
  /\ interval = [c \in Calls |-> InitialInterval]
  /\ startTime = [c \in Calls |-> 0]
  /\ wakeAt = [c \in Calls |-> 0]
  /\ now = 0
  /\ used = [a \in Api |-> 0]
  /\ sent = [a \in Api |-> 0]
  /\ draws = [c \in Calls |-> <<>>]
  /\ firstErr = [c \in Calls |-> NoErr]
  /\ log = [c \in Calls |-> <<>>]

\* One call, any transport outcome.
Init == InitCalls({1}) /\ transport = "any"

\* NumCalls concurrent calls over a transport with a small repertoire.
InitK == InitCalls(Calls) /\ transport = "core"

\* One call over a transport that never succeeds.
InitFail == InitCalls({1}) /\ transport = "failing"

\* An HTTP exchange of call c starts: counted for the call and its categories.
Issue(c) ==
  /\ attempts' = [attempts EXCEPT ![c] = @ + 1]
  /\ sent' = [a \in Api |-> IF a \in Categories(svc[c]) THEN sent[a] + 1 ELSE sent[a]]
  /\ pc' = [pc EXCEPT ![c] = "inflight"]

\* Mutant of Get: the query check is missing.
GetUnchecked(c) ==
  /\ pc[c] = "idle"
  /\ svc[c] \in RetryService
  /\ pc' = [pc EXCEPT ![c] = "limit"]
  /\ UNCHANGED <<svc, query, attempts, permits, outcome, class, result, interval,
                 startTime, wakeAt, now, used, sent, transport, draws, firstErr, log>>

\* get of Directions and Snap-To-Roads up to its first await: the query check,
\* and in Directions the info event that announces the request.
Get(c) ==
  /\ pc[c] = "idle"
  /\ svc[c] \in RetryService
  /\ IF query[c] = "None"
       THEN /\ pc' = [pc EXCEPT ![c] = "done"]
            /\ result' = [result EXCEPT ![c] = ErrResult(QueryNotBuilt)]
            /\ UNCHANGED log
       ELSE /\ pc' = [pc EXCEPT ![c] = "limit"]
            /\ log' = [log EXCEPT ![c] =
                         IF svc[c] = "Directions" THEN Append(@, Event("info", 0)) ELSE @]
            /\ UNCHANGED result
  /\ UNCHANGED <<svc, query, attempts, permits, outcome, class, interval,
                 startTime, wakeAt, now, used, sent, transport, draws, firstErr>>

\* Mutant of LimitApis: the slot of category All is taken as soon as All has
\* room, while the call goes on waiting for its own category.
LimitApisPartial(c) ==
  /\ pc[c] = "limit"
  /\ used["All"] < Limit
  /\ used' = [used EXCEPT !["All"] = @ + 1]
  /\ permits' = [permits EXCEPT ![c] = @ + 1]
  /\ UNCHANGED <<svc, query, pc, attempts, outcome, class, result, interval,
                 startTime, wakeAt, now, sent, transport, draws, firstErr, log>>

\* Mutant of LimitApis: one backoff state for all calls, so that a call starts
\* with the interval and the clock of a call that started before it.
LimitApisSharedBackoff(c) ==
  /\ pc[c] = "limit"
  /\ \A a \in Categories(svc[c]) : used[a] < Limit
  /\ used' = [a \in Api |-> IF a \in Categories(svc[c]) THEN used[a] + 1 ELSE used[a]]
  /\ permits' = [permits EXCEPT ![c] = @ + 1]
  /\ LET started == {d \in Calls \ {c} : attempts[d] > 0} IN
     IF started = {}
       THEN /\ interval' = [interval EXCEPT ![c] = InitialInterval]
            /\ startTime' = [startTime EXCEPT ![c] = now]
       ELSE LET d == CHOOSE x \in started : TRUE IN
            /\ interval' = [interval EXCEPT ![c] = interval[d]]
            /\ startTime' = [startTime EXCEPT ![c] = startTime[d]]
  /\ log' = [log EXCEPT ![c] =
               Append(@, IF svc[c] = "Directions" THEN Event("debug", 0)
                                                  ELSE Event("info", 0))]
  /\ attempts' = [attempts EXCEPT ![c] = @ + 1]
  /\ sent' = [a \in Api |-> IF a \in Categories(svc[c]) THEN sent[a] + 1 ELSE sent[a]]
  /\ pc' = [pc EXCEPT ![c] = "inflight"]
  /\ UNCHANGED <<svc, query, outcome, class, result, wakeAt, now, transport,
                 draws, firstErr>>

\* The rate limiter lets the call pass when every category has room.
Eligible(apis) == \A a \in apis : used[a] < Limit

\* limit_apis(..).await returns; the URL is traced (debug in Directions, info
\* in Snap-To-Roads); retry() starts its backoff clock and calls the closure,
\* which starts the first exchange.
LimitApis(c) ==
  /\ pc[c] = "limit"
  /\ Eligible(Categories(svc[c]))
  /\ used' = [a \in Api |-> IF a \in Categories(svc[c]) THEN used[a] + 1 ELSE used[a]]
  /\ permits' = [permits EXCEPT ![c] = @ + 1]
  /\ interval' = [interval EXCEPT ![c] = InitialInterval]
  /\ startTime' = [startTime EXCEPT ![c] = now]
  /\ log' = [log EXCEPT ![c] =
               Append(@, IF svc[c] = "Directions" THEN Event("debug", 0)
                                                  ELSE Event("info", 0))]
  /\ Issue(c)
  /\ UNCHANGED <<svc, query, outcome, class, result, wakeAt, now, transport,
                 draws, firstErr>>

\* Mutant of GiveUp: the error of the first failed exchange is returned.
GiveUpWithFirst(first, last) == ErrResult(first)

\* retry() when next_backoff has no delay left: the error of the exchange
\* that just failed is returned.
GiveUp(first, last) == ErrResult(last)

\* The exchange of call c ends with outcome o; the closure classifies it and
\* the retry loop returns, or asks the backoff for a delay and sleeps.
Respond(c) ==
  /\ pc[c] = "inflight"
  /\ \E o \in Produces(transport) :
       LET a == Attempt(svc[c], o) IN
       /\ outcome' = [outcome EXCEPT ![c] = o]
       /\ class' = [class EXCEPT ![c] = a.class]
       /\ log' = [log EXCEPT ![c] = @ \o AttemptEvents(a.class, attempts[c])]
       /\ firstErr' = [firstErr EXCEPT ![c] =
                         IF a.class # "Ok" /\ @ = NoErr THEN a.err ELSE @]
       /\ CASE a.class = "Ok" ->
                 /\ pc' = [pc EXCEPT ![c] = "done"]
                 /\ result' = [result EXCEPT ![c] = OkResult(a.val)]
                 /\ UNCHANGED <<interval, wakeAt, draws>>
            [] a.class = "Permanent" ->
                 /\ pc' = [pc EXCEPT ![c] = "done"]
                 /\ result' = [result EXCEPT ![c] = ErrResult(a.err)]
                 /\ UNCHANGED <<interval, wakeAt, draws>>
            [] OTHER ->
                 LET elapsed == now - startTime[c] IN
                 \E r \in RandomizedIntervals(interval[c]) :
                   LET d == NextBackoff(elapsed, r) IN
                   /\ interval' = [interval EXCEPT ![c] =
                                     IF elapsed > MaxElapsedTime
                                       THEN @ ELSE IncrementCurrentInterval(@)]
                   /\ draws' = [draws EXCEPT ![c] =
                                  IF elapsed > MaxElapsedTime THEN @ ELSE Append(@, r)]
                   /\ IF d = 0
                        THEN /\ pc' = [pc EXCEPT ![c] = "done"]
                             /\ result' = [result EXCEPT ![c] =
                                             GiveUp(IF firstErr[c] = NoErr
                                                      THEN a.err ELSE firstErr[c], a.err)]
                             /\ UNCHANGED wakeAt
                        ELSE /\ pc' = [pc EXCEPT ![c] = "waiting"]
                             /\ wakeAt' = [wakeAt EXCEPT ![c] = now + d]
                             /\ UNCHANGED result
  /\ UNCHANGED <<svc, query, attempts, permits, startTime, now, used, sent, transport>>

\* Mutant of Wake: the closure is called again without waiting for the sleep.
WakeEarly(c) ==
  /\ pc[c] = "waiting"
  /\ Issue(c)
  /\ UNCHANGED <<svc, query, permits, outcome, class, result, interval,
                 startTime, wakeAt, now, used, transport, draws, firstErr, log>>

\* The backoff sleep is over: the loop calls the closure again.
Wake(c) ==
  /\ pc[c] = "waiting"
  /\ now >= wakeAt[c]
  /\ Issue(c)
  /\ UNCHANGED <<svc, query, permits, outcome, class, result, interval,
                 startTime, wakeAt, now, used, transport, draws, firstErr, log>>

\* ForwardRequest::get, a blocking call: query check, one GET, decode, return.
ForwardGet(c) ==
  /\ pc[c] = "idle"
  /\ svc[c] = "Geocoding"
  /\ pc' = [pc EXCEPT ![c] = "done"]
  /\ IF query[c] = "None"
       THEN /\ result' = [result EXCEPT ![c] = ErrResult(QueryNotBuilt)]
            /\ UNCHANGED <<attempts, outcome, class, firstErr>>
       ELSE \E o \in Produces(transport) :
              LET a == ForwardAttempt(o) IN
              /\ attempts' = [attempts EXCEPT ![c] = @ + 1]
              /\ outcome' = [outcome EXCEPT ![c] = o]
              /\ class' = [class EXCEPT ![c] = a.class]
              /\ result' = [result EXCEPT ![c] =
                              IF a.class = "Ok" THEN OkResult(a.val) ELSE ErrResult(a.err)]
              /\ firstErr' = [firstErr EXCEPT ![c] = a.err]
  /\ UNCHANGED <<svc, query, permits, interval, startTime, wakeAt, now, used,
                 sent, transport, draws, log>>

\* Time passes while some call is under way, and not past the end of a
\* backoff sleep (the timer fires on time); at a window boundary the limiter's
\* counts start afresh.
Tick ==
  /\ now < MaxTime
  /\ \E c \in Calls : pc[c] \in {"limit", "inflight", "waiting"}
  /\ \A c \in Calls : pc[c] = "waiting" => now < wakeAt[c]
  /\ now' = now + 1
  /\ IF (now + 1) % WindowLen = 0
       THEN /\ used' = [a \in Api |-> 0]
            /\ sent' = [a \in Api |-> 0]
       ELSE UNCHANGED <<used, sent>>
  /\ UNCHANGED <<svc, query, pc, attempts, permits, outcome, class, result,
                 interval, startTime, wakeAt, transport, draws, firstErr, log>>

Next ==
  \/ \E c \in Calls : Get(c)
  \/ \E c \in Calls : LimitApis(c)
  \/ \E c \in Calls : Respond(c)
  \/ \E c \in Calls : Wake(c)
  \/ \E c \in Calls : ForwardGet(c)
  \/ Tick

Spec == Init /\ [][Next]_vars

SpecK == InitK /\ [][Next]_vars

\* The caller drops the future of call c while it is suspended at an .await:
\* in limit_apis, in the HTTP exchange or in the backoff sleep.  Nothing of
\* get runs any more.
Drop(c) ==
  /\ pc[c] \in {"limit", "inflight", "waiting"}
  /\ pc' = [pc EXCEPT ![c] = "dropped"]
  /\ UNCHANGED <<svc, query, attempts, permits, outcome, class, result, interval,
                 startTime, wakeAt, now, used, sent, transport, draws, firstErr, log>>

NextDrop ==
  \/ Next
  \/ \E c \in Calls : Drop(c)

\* Concurrent calls whose futures may be dropped.
SpecDrop == InitK /\ [][NextDrop]_vars

\* The scheduling the runtime gives: time passes, a ready future is polled,
\* an exchange ends, a timer fires.
Fairness ==
  /\ WF_vars(Tick)
  /\ \A c \in Calls :
       /\ WF_vars(Get(c))
       /\ WF_vars(LimitApis(c))
       /\ WF_vars(Respond(c))
       /\ WF_vars(Wake(c))
       /\ WF_vars(ForwardGet(c))

SpecFail == InitFail /\ [][Next]_vars /\ Fairness

\* ------------------------------------------------------------------ claims
Decode(s, b) ==
  CASE s = "Directions" -> DecodeDirections(b)
    [] s = "Roads" -> DecodeRoads(b)
    [] OTHER -> DecodeGeocoding(b)

\* The application-level status of a decoded body: its `status` member, or
\* for Snap-To-Roads the status of the `error` object, "Ok" when there is none.
AppStatus(s, b) ==
  LET d == Decode(s, b) IN
  IF s = "Roads" THEN (IF d.error = "absent" THEN "Ok" ELSE d.error) ELSE d.status

Is2xx(o) == o.kind = "response" /\ IsSuccess(o.status)

Decodes(s, o) == o.body.kind # "readfail" /\ Decode(s, o.body).ok

\* C1: a get on a request whose query is unset returns QueryNotBuilt at once:
\* it never waits for the limiter, never enters the retry loop, gets no
\* permit and starts no HTTP exchange (Directions, Snap-To-Roads, Geocoding).
C1_UnsetQueryFailsAtOnce ==
  \A c \in Calls :
    (query[c] = "None" /\ pc[c] # "absent") =>
      /\ pc[c] \in {"idle", "done"}
      /\ attempts[c] = 0
      /\ permits[c] = 0
      /\ class[c] = "None"
      /\ outcome[c] = NoOutcome
      /\ pc[c] = "done" => result[c] = ErrResult(QueryNotBuilt)

C1_Witness ==
  \E c \in Calls :
    /\ query[c] = "None" /\ svc[c] = "Directions" /\ pc[c] = "done"
    /\ result[c] = ErrResult(QueryNotBuilt)

\* C2: a get returns success only if the exchange that produced it had a 2xx
\* status, its body decoded and its application status was Ok (Directions,
\* Snap-To-Roads, Geocoding).
C2_SuccessOnlyIfOk ==
  \A c \in Calls :
    result[c].tag = "Ok" =>
      /\ Is2xx(outcome[c])
      /\ Decodes(svc[c], outcome[c])
      /\ AppStatus(svc[c], outcome[c].body) = "Ok"

\* C3: an exchange of a retrying get that ends with a 5xx or 429 status is
\* classified Transient whatever its body is; the error carries the status only.
C3_ServerErrorOr429Retryable ==
  \A c \in Calls :
    ( /\ svc[c] \in RetryService
      /\ outcome[c].kind = "response"
      /\ (IsServerError(outcome[c].status) \/ outcome[c].status = 429) ) =>
      /\ class[c] = "Transient"
      /\ result[c].tag # "Ok"
      /\ pc[c] = "done" =>
           result[c] = ErrResult(Err("HttpUnsuccessful", outcome[c].status, "absent"))

C3_Witness ==
  \E c \in Calls :
    /\ svc[c] = "Roads" /\ outcome[c].status = 429
    /\ outcome[c].body = [kind |-> "json", status |-> "Ok", error |-> "absent"]
    /\ class[c] = "Transient" /\ pc[c] = "waiting"

\* C4: an exchange of a retrying get that ends with a status that is neither
\* 2xx nor 5xx nor 429 is classified Permanent: get has returned
\* HttpUnsuccessful with that status and no further exchange is started.
C4_OtherStatusPermanent ==
  \A c \in Calls :
    ( /\ svc[c] \in RetryService
      /\ outcome[c].kind = "response"
      /\ ~IsSuccess(outcome[c].status)
      /\ ~IsServerError(outcome[c].status)
      /\ outcome[c].status # 429 ) =>
      /\ class[c] = "Permanent"
      /\ pc[c] = "done"
      /\ result[c] = ErrResult(Err("HttpUnsuccessful", outcome[c].status, "absent"))

C4_Witness ==
  \E c \in Calls :
    /\ svc[c] = "Directions" /\ outcome[c].kind = "response"
    /\ outcome[c].status = 404 /\ attempts[c] = 2 /\ pc[c] = "done"

\* C5: for a 2xx response whose body decodes, the unknown-error application
\* status is classified Transient and every other non-Ok application status
\* Permanent, for Directions and for Snap-To-Roads.
C5_UnknownErrorRetryable ==
  \A c \in Calls :
    ( /\ svc[c] \in RetryService
      /\ Is2xx(outcome[c])
      /\ Decodes(svc[c], outcome[c]) ) =>
      LET st == AppStatus(svc[c], outcome[c].body) IN
      /\ st = "UnknownError" => class[c] = "Transient"
      /\ st \notin {"Ok", "UnknownError"} => class[c] = "Permanent"

\* C6: a 2xx response whose body does not decode is classified Permanent: get
\* has returned the JSON error and no further exchange is started.
C6_UndecodablePermanent ==
  \A c \in Calls :
    ( /\ svc[c] \in RetryService
      /\ Is2xx(outcome[c])
      /\ outcome[c].body.kind # "readfail"
      /\ ~Decode(svc[c], outcome[c].body).ok ) =>
      /\ class[c] = "Permanent"
      /\ pc[c] = "done"
      /\ result[c] = ErrResult(Err(IF svc[c] = "Directions" THEN "SimdJson"
                                                              ELSE "SerdeJson", 0, "absent"))

C6_Witness ==
  \E c \in Calls :
    /\ svc[c] = "Directions" /\ Is2xx(outcome[c]) /\ outcome[c].body = Garbage
    /\ attempts[c] = 1 /\ pc[c] = "done" /\ now = 0

NoRecognizedStatus(o) ==
  Is2xx(o) /\ o.body.kind = "json" /\ o.body.status \notin Status

\* C7 as stated: a 2xx response whose JSON body has no `status` member or an
\* unknown one is a Permanent failure, never a success, for Directions and for
\* Snap-To-Roads.
C7_NoStatusPermanentEverywhere ==
  \A c \in Calls :
    (svc[c] \in RetryService /\ NoRecognizedStatus(outcome[c])) =>
      /\ class[c] = "Permanent"
      /\ pc[c] = "done"
      /\ result[c].tag = "Err"

\* C7 as amended: for Directions such a response is a Permanent failure (the
\* JSON error) that is not retried and is never a success; Snap-To-Roads looks
\* at no `status` member: the response is a success when it has no `error`
\* object and a Permanent failure when it has one.
C7_NoStatusPermanentDirections ==
  \A c \in Calls :
    NoRecognizedStatus(outcome[c]) =>
      /\ svc[c] = "Directions" =>
           /\ class[c] = "Permanent"
           /\ pc[c] = "done"
           /\ result[c] = ErrResult(Err("SimdJson", 0, "absent"))
      /\ svc[c] = "Roads" =>
           /\ pc[c] = "done"
           /\ IF outcome[c].body.error = "absent"
                THEN class[c] = "Ok" /\ result[c].tag = "Ok"
                ELSE /\ class[c] = "Permanent"
                     /\ result[c] = ErrResult(Err("GoogleMapsService", 0,
                                                  outcome[c].body.error))

C7_Witness ==
  \E c \in Calls :
    /\ svc[c] = "Directions" /\ NoRecognizedStatus(outcome[c])
    /\ outcome[c].body.status = "absent"
    /\ class[c] = "Permanent" /\ pc[c] = "done"

\* C8: when no response is obtained, or the transfer breaks while the body of
\* a 2xx response is read, the exchange is classified Transient, never
\* Permanent.
C8_TransportFaultRetryable ==
  \A c \in Calls :
    ( /\ svc[c] \in RetryService
      /\ \/ outcome[c].kind = "error"
         \/ Is2xx(outcome[c]) /\ outcome[c].body.kind = "readfail" ) =>
      class[c] = "Transient"

\* C9: every HTTP exchange of a retrying get is preceded by its own permit:
\* a call has been given at least as many permits as it has started exchanges.
C9_PermitPerAttempt ==
  \A c \in Calls : svc[c] \in RetryService => permits[c] >= attempts[c]

\* C10: with any number of concurrent calls, the exchanges started in a
\* category within one rate-limit window never exceed the category's limit.
C10_AttemptsWithinLimit ==
  \A a \in Api : sent[a] <= Limit

\* ------------------------------------------------- claims: the retry loop
Last(q) == q[Len(q)]

\* The call gave up: the loop returned while the latest exchange was Transient.
Exhausted(c) ==
  svc[c] \in RetryService /\ pc[c] = "done" /\ class[c] = "Transient"

IsOkResponse(s, o) ==
  Is2xx(o) /\ Decodes(s, o) /\ AppStatus(s, o.body) = "Ok"

\* C11: when n exchanges were Retryable and the next one is a 2xx response
\* that decodes with status Ok, get returns that response's decoded value at
\* once, after exactly n + 1 exchanges (each Retryable exchange drew one delay).
C11_SuccessAfterRetries ==
  \A c \in Calls :
    svc[c] \in RetryService =>
      /\ IsOkResponse(svc[c], outcome[c]) =>
           /\ pc[c] = "done"
           /\ result[c] = OkResult(Decode(svc[c], outcome[c].body))
      /\ result[c].tag = "Ok" =>
           /\ IsOkResponse(svc[c], outcome[c])
           /\ attempts[c] = Len(draws[c]) + 1

C11_Witness ==
  \E c \in Calls :
    /\ svc[c] = "Directions" /\ result[c].tag = "Ok"
    /\ firstErr[c] = Err("HttpUnsuccessful", 503, "absent")
    /\ Len(draws[c]) = 3 /\ attempts[c] = 4

\* C12: once an exchange is classified Permanent the loop starts no further
\* exchange and draws no delay, and get returns that exchange's error; a first
\* response 200 with status REQUEST_DENIED gives that application error after
\* exactly one exchange.
C12_PermanentStops ==
  \A c \in Calls :
    svc[c] \in RetryService =>
      /\ class[c] = "Permanent" =>
           /\ pc[c] = "done"
           /\ result[c] = ErrResult(Attempt(svc[c], outcome[c]).err)
           /\ attempts[c] = Len(draws[c]) + 1
      /\ ( /\ svc[c] = "Directions"
           /\ Is2xx(outcome[c])
           /\ outcome[c].body.kind = "json"
           /\ outcome[c].body.status = "RequestDenied" ) =>
           /\ class[c] = "Permanent"
           /\ result[c] = ErrResult(Err("GoogleMapsService", 0, "RequestDenied"))
           /\ firstErr[c] = result[c].err => attempts[c] = 1

C12_Witness ==
  \E c \in Calls :
    /\ svc[c] = "Directions" /\ outcome[c].kind = "response"
    /\ outcome[c].status = 200 /\ outcome[c].body.status = "RequestDenied"
    /\ attempts[c] = 1 /\ pc[c] = "done" /\ draws[c] = <<>>
    /\ result[c] = ErrResult(Err("GoogleMapsService", 0, "RequestDenied"))

\* C13: when an exchange is classified Retryable the loop gives up only if
\* the backoff reports exhaustion (the time elapsed, or the time elapsed plus
\* the delay drawn, exceeds the maximum elapsed time); otherwise it sleeps the
\* delay drawn and, when the sleep is over, starts the next exchange.
C13_Step ==
  \A c \in Calls :
    /\ ( /\ svc[c] \in RetryService
         /\ pc[c] = "inflight" /\ pc'[c] # "inflight"
         /\ class'[c] = "Transient" ) =>
         LET elapsed == now - startTime[c] IN
         IF elapsed > MaxElapsedTime
           THEN pc'[c] = "done" /\ draws'[c] = draws[c]
           ELSE /\ Len(draws'[c]) = Len(draws[c]) + 1
                /\ Last(draws'[c]) \in RandomizedIntervals(interval[c])
                /\ IF elapsed + Last(draws'[c]) > MaxElapsedTime
                     THEN pc'[c] = "done" /\ result'[c].tag = "Err"
                     ELSE /\ pc'[c] = "waiting"
                          /\ wakeAt'[c] = now + Last(draws'[c])
                          /\ result'[c] = NoResult
    /\ (pc[c] = "waiting" /\ pc'[c] # "waiting") =>
         /\ now >= wakeAt[c]
         /\ pc'[c] = "inflight"
         /\ attempts'[c] = attempts[c] + 1

C13_NeverGivesUpEarly == [][C13_Step]_vars

C13_Witness ==
  \E c \in Calls :
    /\ svc[c] = "Roads" /\ pc[c] = "inflight" /\ attempts[c] = 3
    /\ class[c] = "Transient" /\ now - startTime[c] < MaxElapsedTime

\* The least delay the backoff can draw.
MinDelay == InitialInterval - InitialInterval \div 2

\* The delays call c has slept or is sleeping: the draws, without a last draw
\* that next_backoff refused.
Slept(c) ==
  IF pc[c] = "done" /\ Len(draws[c]) = attempts[c]
    THEN SubSeq(draws[c], 1, Len(draws[c]) - 1)
    ELSE draws[c]

C14_Bounded ==
  \A c \in Calls :
    svc[c] \in RetryService =>
      /\ pc[c] = "waiting" => wakeAt[c] <= startTime[c] + MaxElapsedTime
      /\ attempts[c] <= 1 + MaxElapsedTime \div MinDelay
      /\ pc[c] = "done" /\ query[c] = "Some" =>
           /\ result[c].tag = "Err"
           /\ class[c] = "Transient"
           /\ attempts[c] = Len(Slept(c)) + 1

C15_LastErrorReturned ==
  \A c \in Calls :
    Exhausted(c) =>
      /\ result[c].tag = "Err"
      /\ result[c].err = Attempt(svc[c], outcome[c]).err

C15_Witness ==
  \E c \in Calls :
    /\ Exhausted(c) /\ attempts[c] >= 2
    /\ firstErr[c] # NoErr /\ firstErr[c] # result[c].err
    /\ result[c].err = Attempt(svc[c], outcome[c]).err

\* The errors each classification can produce, per service.
ErrorsOf(cls) ==
  [s \in RetryService |->
     {Attempt(s, o).err : o \in {x \in Outcomes : Attempt(s, x).class = cls}}]

PermanentErrors == ErrorsOf("Permanent")

TransientErrors == ErrorsOf("Transient")

\* C16: an error get returns on exhaustion is never an error it can return
\* for a Permanent classification, and an error returned for a Permanent
\* classification is never one exhaustion can return.
C16_ExhaustionDistinguishable ==
  \A c \in Calls :
    svc[c] \in RetryService /\ pc[c] = "done" /\ result[c].tag = "Err" =>
      /\ class[c] = "Transient" => result[c].err \notin PermanentErrors[svc[c]]
      /\ class[c] = "Permanent" => result[c].err \notin TransientErrors[svc[c]]

C16_Witness ==
  \E c \in Calls :
    /\ Exhausted(c) /\ result[c].err.kind = "HttpUnsuccessful"
    /\ \E e \in PermanentErrors[svc[c]] : e.kind = "HttpUnsuccessful"

\* The current_interval before the i-th draw: initial_interval times 1.5 per
\* earlier draw, capped at max_interval.
RECURSIVE BaseInterval(_)
BaseInterval(i) ==
  IF i <= 1
    THEN InitialInterval
    ELSE LET b == BaseInterval(i - 1) IN
         IF (b * 3) \div 2 > MaxInterval THEN MaxInterval ELSE (b * 3) \div 2

\* C17 as stated: the delays slept are non-decreasing and none exceeds the
\* maximum interval.
C17_DelaysNonDecreasing ==
  \A c \in Calls :
    /\ \A i \in 1..(Len(Slept(c)) - 1) : Slept(c)[i] <= Slept(c)[i + 1]
    /\ \A i \in 1..Len(Slept(c)) : Slept(c)[i] <= MaxInterval

\* C17 amended: the i-th delay lies within half of the un-jittered interval
\* of its draw above or below it; that interval is non-decreasing and never
\* exceeds the maximum interval, so no delay exceeds one and a half times it.
C17_DelaysWithinJitter ==
  \A c \in Calls :
    /\ interval[c] = BaseInterval(Len(draws[c]) + 1)
    /\ interval[c] <= MaxInterval
    /\ \A i \in 1..Len(draws[c]) :
         /\ draws[c][i] \in RandomizedIntervals(BaseInterval(i))
         /\ BaseInterval(i) <= BaseInterval(i + 1)
         /\ draws[c][i] <= MaxInterval + MaxInterval \div 2

C17_Witness ==
  \E c \in Calls :
    /\ Len(Slept(c)) = 2 /\ attempts[c] = 3
    /\ Slept(c)[1] > Slept(c)[2]

\* ----------------------------------- claims: sequencing, purity, diagnostics
C18_Step ==
  \A c \in Calls :
    svc[c] \in RetryService =>
      /\ attempts'[c] \in {attempts[c], attempts[c] + 1}
      /\ (pc'[c] = "inflight" /\ pc[c] # "inflight") <=>
           attempts'[c] = attempts[c] + 1
      /\ (attempts'[c] = attempts[c] + 1 /\ attempts[c] >= 1) =>
           /\ pc[c] = "waiting"
           /\ class[c] = "Transient"
           /\ outcome[c] # NoOutcome
           /\ now >= wakeAt[c]

\* C18: the exchanges of one call are strictly sequential: an exchange starts
\* only while none of that call is in flight, and every exchange after the
\* first starts only after the one before was classified and the backoff
\* sleep it led to is over; the exchanges of other calls are not constrained.
C18_AttemptsSequential == [][C18_Step]_vars

C18_Witness ==
  \E c, d \in Calls :
    /\ c # d /\ svc[c] \in RetryService /\ svc[d] \in RetryService
    /\ pc[c] = "inflight" /\ attempts[c] = 2
    /\ pc[d] = "inflight" /\ attempts[d] = 1

C19_SameAcrossCalls ==
  \A c, d \in Calls :
    ( /\ svc[c] \in RetryService /\ svc[c] = svc[d]
      /\ outcome[c] # NoOutcome /\ outcome[c] = outcome[d] )
    => class[c] = class[d]

C19_SameAcrossAttempts ==
  \A c \in Calls :
    ( /\ svc[c] \in RetryService
      /\ pc[c] = "inflight" /\ pc'[c] # "inflight"
      /\ outcome[c] # NoOutcome /\ outcome'[c] = outcome[c] )
    => class'[c] = class[c]

Classified(c) == IF pc[c] = "inflight" THEN attempts[c] - 1 ELSE attempts[c]

\* The class exchange k of call c was given: every exchange before the latest
\* was Transient.
ClassOfAttempt(c, k) == IF k < Classified(c) THEN "Transient" ELSE class[c]

Severity(cls) ==
  CASE cls = "Ok" -> "info"
    [] cls = "Transient" -> "warn"
    [] OTHER -> "error"

\* C20: every classified exchange has left an event of the severity of its
\* class: info for Ok, warn for Transient, error for Permanent.
C20_EveryAttemptLogged ==
  \A c \in Calls :
    svc[c] \in RetryService =>
      \A k \in 1..Classified(c) :
        \E i \in 1..Len(log[c]) :
          log[c][i] = Event(Severity(ClassOfAttempt(c, k)), k)

C22_OwnBackoff ==
  \A c \in Calls :
    (svc[c] \in RetryService /\ attempts[c] >= 1) =>
      /\ interval[c] = BaseInterval(Len(draws[c]) + 1)
      /\ \A i \in 1..Len(draws[c]) :
           draws[c][i] \in RandomizedIntervals(BaseInterval(i))
      /\ startTime[c] <= now
      /\ pc[c] = "waiting" => wakeAt[c] <= startTime[c] + MaxElapsedTime

C22_Step ==
  \A c \in Calls :
    /\ pc'[c] = pc[c] =>
         /\ interval'[c] = interval[c] /\ startTime'[c] = startTime[c]
         /\ wakeAt'[c] = wakeAt[c] /\ draws'[c] = draws[c]
         /\ attempts'[c] = attempts[c] /\ outcome'[c] = outcome[c]
         /\ class'[c] = class[c] /\ result'[c] = result[c]
    /\ (pc[c] = "limit" /\ pc'[c] = "inflight") =>
         /\ interval'[c] = InitialInterval
         /\ startTime'[c] = now
         /\ draws'[c] = <<>>

\* C22: every call runs its retry loop on a backoff state of its own: the
\* loop starts with the initial interval and a clock started at that moment
\* whatever other calls went through, a step of one call leaves the backoff
\* state, the exchanges and the result of every other call as they were, and
\* a call's interval and delays follow from its own draws alone.
C22_FreshBackoffPerCall == []C22_OwnBackoff /\ [][C22_Step]_vars

C22_Witness ==
  \E c, d \in Calls :
    /\ c # d /\ svc[c] \in RetryService /\ svc[d] \in RetryService
    /\ pc[c] = "done" /\ class[c] = "Transient" /\ interval[c] = MaxInterval
    /\ pc[d] = "waiting" /\ Len(draws[d]) = 1
    /\ startTime[d] > startTime[c]
    /\ interval[d] = BaseInterval(2)

\* ------------------------------------------- claims: Geocoding and Roads
\* C23: a Geocoding forward get with a built query makes exactly one exchange
\* and returns in the same step: it takes no permit, draws no delay, never
\* sleeps and emits no event; a transport failure or a body that cannot be
\* read or decoded gives an error, and every body that decodes is returned as
\* Ok, whatever the HTTP status and the status in the body.
C23_ForwardSingleAttempt ==
  \A c \in Calls :
    svc[c] = "Geocoding" =>
      /\ pc[c] \in {"absent", "idle", "done"}
      /\ permits[c] = 0 /\ draws[c] = <<>> /\ wakeAt[c] = 0 /\ log[c] = <<>>
      /\ \A a \in Api : used[a] = 0
      /\ (pc[c] = "done" /\ query[c] = "Some") =>
           /\ attempts[c] = 1
           /\ outcome[c] # NoOutcome
           /\ IF /\ outcome[c].kind = "response"
                 /\ outcome[c].body.kind # "readfail"
                 /\ DecodeGeocoding(outcome[c].body).ok
                THEN result[c] = OkResult(DecodeGeocoding(outcome[c].body))
                ELSE result[c].tag = "Err"

C23_Witness ==
  \E c \in Calls :
    /\ svc[c] = "Geocoding" /\ pc[c] = "done" /\ attempts[c] = 1
    /\ outcome[c].kind = "response" /\ outcome[c].status = 503
    /\ outcome[c].body.kind = "json" /\ outcome[c].body.status = "RequestDenied"
    /\ result[c].tag = "Ok" /\ result[c].val.status = "RequestDenied"

\* C24: in Snap-To-Roads a 2xx response whose body decodes with an error
\* object is Permanent whatever status the error object holds: the call ends
\* with a GoogleMapsService error carrying that status and makes no further
\* exchange; a 2xx body that decodes without an error object is returned as
\* success.
C24_RoadsErrorObjectPermanent ==
  \A c \in Calls :
    ( /\ svc[c] = "Roads"
      /\ Is2xx(outcome[c])
      /\ outcome[c].body.kind # "readfail"
      /\ DecodeRoads(outcome[c].body).ok ) =>
      LET d == DecodeRoads(outcome[c].body) IN
      /\ pc[c] = "done"
      /\ attempts[c] = Len(draws[c]) + 1
      /\ IF d.error # "absent"
           THEN /\ class[c] = "Permanent"
                /\ result[c] = ErrResult(Err("GoogleMapsService", 0, d.error))
           ELSE /\ class[c] = "Ok"
                /\ result[c] = OkResult(d)

C24_Witness ==
  \E c \in Calls :
    /\ svc[c] = "Roads" /\ pc[c] = "done" /\ attempts[c] = 1
    /\ Is2xx(outcome[c]) /\ outcome[c].body.kind = "json"
    /\ outcome[c].body.error = "UnknownError"
    /\ class[c] = "Permanent"
    /\ result[c] = ErrResult(Err("GoogleMapsService", 0, "UnknownError"))

====
